---- MODULE Spec2Model ----
(***************************************************************************)
(* State machine of the cloud server of odm-demo-cloud (src/server.js,     *)
(* the application that starts at line 139): the in-memory maps, one action *)
(* per HTTP handler, and the wall clock the handlers read.                  *)
(*                                                                         *)
(* Representation of JavaScript values:                                    *)
(*   - strings are TLA+ strings; null and undefined are the two strings    *)
(*     Null and Undefined, which no request of the model uses as data;     *)
(*   - an ISO timestamp (nowIso()) is the one-element tuple <<ms>>, a      *)
(*     value that is never falsy; a null timestamp is the empty tuple;     *)
(*   - a request field that the handler type-tests (Array.isArray, typeof) *)
(*     is a record carrying the outcome of the test and the value.         *)
(***************************************************************************)
EXTENDS Integers, Sequences, FiniteSets, TLC

VARIABLES
    agents,           \* Map agentId -> agent record
    pairingSessions,  \* Map pairingCode -> [agentId, expiresAt, usedAt]
    agentDevices,     \* Map agentId -> sequence of devices
    jobs,             \* Map jobId -> job record
    agentJobQueue,    \* Map agentId -> sequence of jobIds
    now,              \* Date.now(), in milliseconds
    resp,             \* the response of the last request handled
    ticks,            \* number of clock advances so far
    reports,          \* number of accepted progress reports so far
    claimCount,       \* history: pairingCode -> number of successful claims
    dispatched,       \* history: sequence of <<agentId, jobId>> handed out by /agent/jobs/next
    deviceUuids,      \* number of device identifiers the server generated
    jobPollTimer,     \* dashboard: the global jobPollTimer (0 when null)
    intervals,        \* dashboard: Map timer id -> jobId of the live setInterval timers
    inFlight,         \* dashboard: the tick() calls that await their GET /portal/jobs/:jobId
    requests,         \* dashboard: number of job-poll requests sent so far
    timerIds,         \* dashboard: number of setInterval calls so far
    observedEnd,      \* history: jobs for which a tick saw succeeded, failed or a failed request
    polled            \* history: jobs pollJob was called for

dashboard == <<jobPollTimer, intervals, inFlight, requests, timerIds, observedEnd, polled>>

vars == <<agents, pairingSessions, agentDevices, jobs, agentJobQueue, now, resp,
          ticks, reports, claimCount, dispatched, deviceUuids, dashboard>>

store == <<agents, pairingSessions, agentDevices, jobs, agentJobQueue>>

-----------------------------------------------------------------------------
(* Bounds of the model *)

MaxAgents == 2
MaxTicks == 1
MaxJobs == 1
MaxLedgerAgents == 1
MaxReports == 2
MaxQueueJobs == 4
MaxQueueReports == 1
MaxDeviceUuids == 2
MaxUnpairJobs == 3
MaxEnqueueJobs == 2
MaxFrameJobs == 2
MaxFrameReports == 1
MaxDispatchJobs == 4
MaxDashboardJobs == 2
MaxPollRequests == 4

-----------------------------------------------------------------------------
(* JavaScript values *)

Null == "null"
Undefined == "undefined"
NoTime == <<>>
\* setInterval returns a positive identifier; a null jobPollTimer is 0.
NoTimer == 0

Nullish(v) == v \in {Null, Undefined}
Falsy(v) == Nullish(v) \/ v = ""
Coalesce(v, d) == IF Nullish(v) THEN d ELSE v

nowIso(t) == <<t>>
IsoMs(iso) == iso[1]
TruthyTime(iso) == iso # NoTime

Min(a, b) == IF a < b THEN a ELSE b
Max(a, b) == IF a > b THEN a ELSE b

-----------------------------------------------------------------------------
(* Program constants *)

PairingTtlMs == 10 * 60 * 1000
N == 3

\* The online policy of the specification (no code of src/ computes it).
OnlineTtlMs == 15000
isOnline(lastSeenAt, t) ==
    /\ lastSeenAt # NoTime
    /\ 0 <= t - IsoMs(lastSeenAt)
    /\ t - IsoMs(lastSeenAt) < OnlineTtlMs

-----------------------------------------------------------------------------
(* Identifiers.  crypto.randomUUID() yields an identifier never seen before: *)
(* the k-th agent, job or generated device identifier.  makePairingCode()    *)
(* draws two random groups and checks nothing: any code of the code space.   *)

AgentUuid(k) == "agent-" \o ToString(k)
JobUuid(k) == "job-" \o ToString(k)
PairingCodes == {"8K7Q-2M9D", "X1YZ-44AB"}
makePairingCode == PairingCodes

AgentCount == Cardinality(DOMAIN agents)
JobCount == Cardinality(DOMAIN jobs)

Put(map, key, value) == [k \in DOMAIN map \cup {key} |-> IF k = key THEN value ELSE map[k]]

-----------------------------------------------------------------------------
(* Responses *)

Fail(op, http, error) == [op |-> op, http |-> http, ok |-> FALSE, error |-> error]

Init ==
    /\ agents = << >>
    /\ pairingSessions = << >>
    /\ agentDevices = << >>
    /\ jobs = << >>
    /\ agentJobQueue = << >>
    /\ now = 0
    /\ resp = [op |-> "none", http |-> 0, ok |-> TRUE]
    /\ ticks = 0
    /\ reports = 0
    /\ claimCount = [c \in PairingCodes |-> 0]
    /\ dispatched = << >>
    /\ deviceUuids = 0
    /\ jobPollTimer = NoTimer
    /\ intervals = << >>
    /\ inFlight = {}
    /\ requests = 0
    /\ timerIds = 0
    /\ observedEnd = {}
    /\ polled = {}

-----------------------------------------------------------------------------
(* POST /agent/pairing/start *)

NewAgent(agentId, agentVersion, hostname, t) ==
    [agentId |-> agentId,
     tenantId |-> Null,
     displayName |-> Coalesce(hostname, "unpaired-agent"),
     siteId |-> Null,
     paired |-> FALSE,
     online |-> FALSE,
     lastSeenAt |-> NoTime,
     agentVersion |-> Coalesce(agentVersion, "unknown"),
     capabilities |-> "{}",
     createdAt |-> nowIso(t),
     pairedBy |-> Undefined,
     pairedAt |-> NoTime]

NewSession(agentId, t) ==
    [agentId |-> agentId, expiresAt |-> t + PairingTtlMs, usedAt |-> NoTime]

PairingStart(agentVersion, hostname, pairingCode) ==
    LET agentId == AgentUuid(AgentCount + 1) IN
    /\ pairingCode \in makePairingCode
    /\ agents' = Put(agents, agentId, NewAgent(agentId, agentVersion, hostname, now))
    /\ pairingSessions' = Put(pairingSessions, pairingCode, NewSession(agentId, now))
    /\ resp' = [op |-> "pairingStart", http |-> 200, ok |-> TRUE, agentId |-> agentId,
                pairingCode |-> pairingCode, expiresAt |-> nowIso(now + PairingTtlMs)]
    /\ UNCHANGED <<agentDevices, jobs, agentJobQueue, now, ticks, reports, claimCount,
                   dispatched, deviceUuids>>
    /\ UNCHANGED dashboard

-----------------------------------------------------------------------------
(* POST /agent/heartbeat *)

KnownAgent(agentId) == ~Falsy(agentId) /\ agentId \in DOMAIN agents

HeartbeatAgent(a, agentVersion, capabilities, t) ==
    [a EXCEPT !.online = TRUE,
              !.lastSeenAt = nowIso(t),
              !.agentVersion = Coalesce(agentVersion, a.agentVersion),
              !.capabilities = Coalesce(capabilities, a.capabilities)]

Heartbeat(agentId, agentVersion, capabilities) ==
    /\ IF ~KnownAgent(agentId)
       THEN /\ resp' = Fail("heartbeat", 400, "UNKNOWN_AGENT")
            /\ UNCHANGED agents
       ELSE /\ agents' = [agents EXCEPT ![agentId] =
                             HeartbeatAgent(agents[agentId], agentVersion, capabilities, now)]
            /\ resp' = [op |-> "heartbeat", http |-> 200, ok |-> TRUE, serverTime |-> nowIso(now)]
    /\ UNCHANGED <<pairingSessions, agentDevices, jobs, agentJobQueue, now, ticks, reports,
                   claimCount, dispatched, deviceUuids>>
    /\ UNCHANGED dashboard

-----------------------------------------------------------------------------
(* POST /agent/devices/report *)

DeviceUuid(k) == "device-" \o ToString(k)

\* The number of reported devices among items[1..i] that carry no deviceId.
RECURSIVE MissingIds(_, _)
MissingIds(items, i) ==
    IF i = 0 THEN 0
    ELSE MissingIds(items, i - 1) + (IF Nullish(items[i].deviceId) THEN 1 ELSE 0)

ReportedDevice(d, generatedId, t) ==
    [deviceId |-> Coalesce(d.deviceId, generatedId),
     serialNumber |-> Coalesce(d.serialNumber, Null),
     model |-> Coalesce(d.model, "unknown"),
     fwVersion |-> Coalesce(d.fwVersion, Null),
     status |-> Coalesce(d.status, "unknown"),
     reportedAt |-> nowIso(t)]

ReportedDevices_FirstOnly(items, t) ==
    [i \in 1..Min(1, Len(items)) |->
        ReportedDevice(items[i], DeviceUuid(deviceUuids + MissingIds(items, i)), t)]
ReportedDevices(items, t) ==
    [i \in 1..Len(items) |->
        ReportedDevice(items[i], DeviceUuid(deviceUuids + MissingIds(items, i)), t)]

DevicesReport(agentId, devices) ==
    /\ IF ~KnownAgent(agentId)
       THEN /\ resp' = Fail("devicesReport", 400, "UNKNOWN_AGENT")
            /\ UNCHANGED <<agents, agentDevices, deviceUuids>>
       ELSE IF ~devices.isArray
       THEN /\ resp' = Fail("devicesReport", 400, "MISSING_DEVICES")
            /\ UNCHANGED <<agents, agentDevices, deviceUuids>>
       ELSE /\ agentDevices' = Put(agentDevices, agentId, ReportedDevices(devices.items, now))
            /\ deviceUuids' = deviceUuids + MissingIds(devices.items, Len(devices.items))
            /\ agents' = [agents EXCEPT ![agentId].lastSeenAt = nowIso(now)]
            /\ resp' = [op |-> "devicesReport", http |-> 200, ok |-> TRUE,
                        count |-> Len(devices.items)]
    /\ UNCHANGED <<pairingSessions, jobs, agentJobQueue, now, ticks, reports, claimCount,
                   dispatched>>
    /\ UNCHANGED dashboard

-----------------------------------------------------------------------------
(* GET /agent/jobs/next *)

ensureQueue_Reset(agentId) == Put(agentJobQueue, agentId, << >>)
ensureQueue(agentId) ==
    IF agentId \in DOMAIN agentJobQueue THEN agentJobQueue
    ELSE Put(agentJobQueue, agentId, << >>)

\* queue.splice(0, n): the removed head, and what stays in the queue.
SpliceHead_Tail(queue, n) == SubSeq(queue, Len(queue) - Min(n, Len(queue)) + 1, Len(queue))
SpliceHead_DropsLast(queue, n) == SubSeq(queue, 1, Min(n, Len(queue)) - 1)
SpliceHead(queue, n) == SubSeq(queue, 1, Min(n, Len(queue)))
SpliceRest_Slice(queue, n) == queue
SpliceRest(queue, n) == SubSeq(queue, Min(n, Len(queue)) + 1, Len(queue))

JobView(j) ==
    [jobId |-> j.jobId, type |-> j.type, agentId |-> j.agentId, deviceId |-> j.deviceId,
     payload |-> j.payload]

\* jobIds.map(id => jobs.get(id)).filter(Boolean).map(...)
JobsPayload(jobIds) ==
    LET found == SelectSeq(jobIds, LAMBDA id : id \in DOMAIN jobs)
    IN [i \in 1..Len(found) |-> JobView(jobs[found[i]])]

\* A poll that marks the jobs it hands out as running.
JobsNext_MarksRunning(agentId) ==
    /\ IF ~KnownAgent(agentId)
       THEN /\ resp' = Fail("jobsNext", 400, "UNKNOWN_AGENT")
            /\ UNCHANGED <<agentJobQueue, dispatched, jobs>>
       ELSE LET queues == ensureQueue(agentId)
                queue == queues[agentId]
                payload == JobsPayload(SpliceHead(queue, N))
            IN /\ agentJobQueue' = [queues EXCEPT ![agentId] = SpliceRest(queue, N)]
               /\ resp' = [op |-> "jobsNext", http |-> 200, ok |-> TRUE, jobs |-> payload]
               /\ dispatched' = dispatched \o
                      [i \in 1..Len(payload) |-> <<agentId, payload[i].jobId>>]
               /\ jobs' = [j \in DOMAIN jobs |->
                              IF \E i \in 1..Len(payload) : payload[i].jobId = j
                              THEN [jobs[j] EXCEPT !.status = "running"] ELSE jobs[j]]
    /\ UNCHANGED <<agents, pairingSessions, agentDevices, now, ticks, reports,
                   claimCount, deviceUuids>>
    /\ UNCHANGED dashboard
JobsNext(agentId) ==
    /\ IF ~KnownAgent(agentId)
       THEN /\ resp' = Fail("jobsNext", 400, "UNKNOWN_AGENT")
            /\ UNCHANGED <<agentJobQueue, dispatched>>
       ELSE LET queues == ensureQueue(agentId)
                queue == queues[agentId]
                payload == JobsPayload(SpliceHead(queue, N))
            IN IF Len(queue) = 0
               THEN /\ agentJobQueue' = queues
                    /\ resp' = [op |-> "jobsNext", http |-> 200, ok |-> TRUE, jobs |-> << >>]
                    /\ UNCHANGED dispatched
               ELSE /\ agentJobQueue' = [queues EXCEPT ![agentId] = SpliceRest(queue, N)]
                    /\ resp' = [op |-> "jobsNext", http |-> 200, ok |-> TRUE, jobs |-> payload]
                    /\ dispatched' = dispatched \o
                           [i \in 1..Len(payload) |-> <<agentId, payload[i].jobId>>]
    /\ UNCHANGED <<agents, pairingSessions, agentDevices, jobs, now, ticks, reports,
                   claimCount, deviceUuids>>
    /\ UNCHANGED dashboard

-----------------------------------------------------------------------------
(* POST /agent/jobs/:jobId/progress *)

AgentMismatch_Unchecked(j, agentId) == FALSE
AgentMismatch(j, agentId) == ~Falsy(agentId) /\ j.agentId # agentId

ClampProgress_NoCeiling(p) == Max(0, p)
ClampProgress(p) == Max(0, Min(100, p))

StartedAt_Overwrites(j, t) ==
    IF j.status = "running" THEN nowIso(t) ELSE j.startedAt
StartedAt(j, t) ==
    IF j.status = "running" /\ ~TruthyTime(j.startedAt) THEN nowIso(t) ELSE j.startedAt

FinishedAt_Never(j, t) == j.finishedAt
FinishedAt(j, t) ==
    IF j.status \in {"succeeded", "failed"} /\ ~TruthyTime(j.finishedAt)
    THEN nowIso(t) ELSE j.finishedAt

ReportedFields_TerminalKept(j, status, progress, message) ==
    [j EXCEPT !.status = IF ~Falsy(status) /\ j.status \notin {"succeeded", "failed"}
                         THEN status ELSE j.status,
              !.progress = IF progress.isNumber THEN ClampProgress(progress.value)
                           ELSE j.progress,
              !.message = IF ~Falsy(message) THEN message ELSE j.message]

ReportedFields_TakesDevice(j, status, progress, message) ==
    [j EXCEPT !.status = IF ~Falsy(status) THEN status ELSE j.status,
              !.progress = IF progress.isNumber THEN ClampProgress(progress.value)
                           ELSE j.progress,
              !.message = IF ~Falsy(message) THEN message ELSE j.message,
              !.deviceId = Undefined]

\* The record after the three partial updates of lines 273-275.
ReportedFields(j, status, progress, message) ==
    [j EXCEPT !.status = IF ~Falsy(status) THEN status ELSE j.status,
              !.progress = IF progress.isNumber THEN ClampProgress(progress.value)
                           ELSE j.progress,
              !.message = IF ~Falsy(message) THEN message ELSE j.message]

ReportedJob(j, status, progress, message, t) ==
    LET u == ReportedFields(j, status, progress, message)
    IN [u EXCEPT !.startedAt = StartedAt(u, t),
                 !.finishedAt = FinishedAt(u, t),
                 !.updatedAt = nowIso(t)]

JobProgress(jobId, agentId, status, progress, message) ==
    /\ IF jobId \notin DOMAIN jobs
       THEN /\ resp' = Fail("jobProgress", 404, "UNKNOWN_JOB")
            /\ UNCHANGED <<jobs, reports>>
       ELSE IF AgentMismatch(jobs[jobId], agentId)
       THEN /\ resp' = Fail("jobProgress", 403, "AGENT_MISMATCH")
            /\ UNCHANGED <<jobs, reports>>
       ELSE /\ resp' = [op |-> "jobProgress", http |-> 200, ok |-> TRUE]
            /\ reports' = reports + 1
            /\ jobs' = [jobs EXCEPT ![jobId] =
                           ReportedJob(jobs[jobId], status, progress, message, now)]
    /\ UNCHANGED <<agents, pairingSessions, agentDevices, agentJobQueue, now, ticks,
                   claimCount, dispatched, deviceUuids>>
    /\ UNCHANGED dashboard

-----------------------------------------------------------------------------
(* POST /portal/agents/pair *)

CodeUsed_OnlyBeforeExpiry(session) ==
    TruthyTime(session.usedAt) /\ now <= session.expiresAt
CodeUsed(session) == TruthyTime(session.usedAt)
CodeExpired_AtDeadline(session, t) == t >= session.expiresAt
CodeExpired(session, t) == t > session.expiresAt

ClaimedAgent_TruthyTenant(agent, tenantId, userId, displayName, siteId, t) ==
    [agent EXCEPT !.tenantId = IF Falsy(tenantId) THEN "demo-tenant" ELSE tenantId,
                  !.displayName = Coalesce(displayName, agent.displayName),
                  !.siteId = Coalesce(siteId, Null),
                  !.paired = TRUE,
                  !.pairedBy = Coalesce(userId, "demo-user"),
                  !.pairedAt = nowIso(t)]
ClaimedAgent_FalsyTenantIsNull(agent, tenantId, userId, displayName, siteId, t) ==
    [agent EXCEPT !.tenantId = IF Falsy(tenantId) THEN Null ELSE tenantId,
                  !.displayName = Coalesce(displayName, agent.displayName),
                  !.siteId = Coalesce(siteId, Null),
                  !.paired = TRUE,
                  !.pairedBy = Coalesce(userId, "demo-user"),
                  !.pairedAt = nowIso(t)]
ClaimedAgent(agent, tenantId, userId, displayName, siteId, t) ==
    [agent EXCEPT !.tenantId = Coalesce(tenantId, "demo-tenant"),
                  !.displayName = Coalesce(displayName, agent.displayName),
                  !.siteId = Coalesce(siteId, Null),
                  !.paired = TRUE,
                  !.pairedBy = Coalesce(userId, "demo-user"),
                  !.pairedAt = nowIso(t)]

UsedSession_Unmarked(session, t) == session
UsedSession(session, t) == [session EXCEPT !.usedAt = nowIso(t)]

\* A handler that purges the expired session it rejects.
PortalPair_PurgesExpired(pairingCode, tenantId, userId, displayName, siteId) ==
    /\ IF Falsy(pairingCode)
       THEN /\ resp' = Fail("pair", 400, "MISSING_PAIRING_CODE")
            /\ UNCHANGED <<agents, pairingSessions, claimCount>>
       ELSE IF pairingCode \notin DOMAIN pairingSessions
       THEN /\ resp' = Fail("pair", 404, "INVALID_CODE")
            /\ UNCHANGED <<agents, pairingSessions, claimCount>>
       ELSE IF TruthyTime(pairingSessions[pairingCode].usedAt)
       THEN /\ resp' = Fail("pair", 409, "CODE_ALREADY_USED")
            /\ UNCHANGED <<agents, pairingSessions, claimCount>>
       ELSE IF now > pairingSessions[pairingCode].expiresAt
       THEN /\ resp' = Fail("pair", 410, "CODE_EXPIRED")
            /\ pairingSessions' = [c \in DOMAIN pairingSessions \ {pairingCode} |->
                                      pairingSessions[c]]
            /\ UNCHANGED <<agents, claimCount>>
       ELSE LET session == pairingSessions[pairingCode]
                agent == agents[session.agentId]
            IN /\ agents' = [agents EXCEPT ![session.agentId] =
                                [agent EXCEPT !.tenantId = Coalesce(tenantId, "demo-tenant"),
                                              !.displayName = Coalesce(displayName, agent.displayName),
                                              !.siteId = Coalesce(siteId, Null),
                                              !.paired = TRUE,
                                              !.pairedBy = Coalesce(userId, "demo-user"),
                                              !.pairedAt = nowIso(now)]]
               /\ pairingSessions' = [pairingSessions EXCEPT ![pairingCode].usedAt = nowIso(now)]
               /\ claimCount' = [claimCount EXCEPT ![pairingCode] = @ + 1]
               /\ resp' = [op |-> "pair", http |-> 200, ok |-> TRUE,
                           agentId |-> session.agentId, status |-> "paired"]
    /\ UNCHANGED <<agentDevices, jobs, agentJobQueue, now, ticks, reports, dispatched,
                   deviceUuids>>
    /\ UNCHANGED dashboard
PortalPair(pairingCode, tenantId, userId, displayName, siteId) ==
    /\ IF Falsy(pairingCode)
       THEN /\ resp' = Fail("pair", 400, "MISSING_PAIRING_CODE")
            /\ UNCHANGED <<agents, pairingSessions, claimCount>>
       ELSE IF pairingCode \notin DOMAIN pairingSessions
       THEN /\ resp' = Fail("pair", 404, "INVALID_CODE")
            /\ UNCHANGED <<agents, pairingSessions, claimCount>>
       ELSE IF CodeUsed(pairingSessions[pairingCode])
       THEN /\ resp' = Fail("pair", 409, "CODE_ALREADY_USED")
            /\ UNCHANGED <<agents, pairingSessions, claimCount>>
       ELSE IF CodeExpired(pairingSessions[pairingCode], now)
       THEN /\ resp' = Fail("pair", 410, "CODE_EXPIRED")
            /\ UNCHANGED <<agents, pairingSessions, claimCount>>
       ELSE LET session == pairingSessions[pairingCode]
                agent == agents[session.agentId]
            IN /\ agents' = [agents EXCEPT ![session.agentId] =
                                ClaimedAgent(agent, tenantId, userId, displayName, siteId, now)]
               /\ pairingSessions' = [pairingSessions EXCEPT ![pairingCode] =
                                         UsedSession(session, now)]
               /\ claimCount' = [claimCount EXCEPT ![pairingCode] = @ + 1]
               /\ resp' = [op |-> "pair", http |-> 200, ok |-> TRUE,
                           agentId |-> session.agentId, status |-> "paired"]
    /\ UNCHANGED <<agentDevices, jobs, agentJobQueue, now, ticks, reports, dispatched,
                   deviceUuids>>
    /\ UNCHANGED dashboard

-----------------------------------------------------------------------------
(* POST /portal/agents/:agentId/unpair.  The dashboard calls this route      *)
(* (src/unnamed/part_000, unpairSelectedAgent); its handler is not in        *)
(* src/server.js and is taken from the specification's unpair operation.     *)

UnpairedAgent(agent) ==
    [agent EXCEPT !.paired = FALSE,
                  !.tenantId = Null,
                  !.siteId = Null,
                  !.pairedAt = NoTime,
                  !.pairedBy = Null]

\* The agent's job queue is discarded entirely.
DiscardQueue_Kept(queues, agentId) == queues
DiscardQueue(queues, agentId) == [a \in DOMAIN queues \ {agentId} |-> queues[a]]

Unpair(agentId) ==
    /\ IF agentId \notin DOMAIN agents
       THEN /\ resp' = Fail("unpair", 404, "UNKNOWN_AGENT")
            /\ UNCHANGED <<agents, agentJobQueue>>
       ELSE /\ agents' = [agents EXCEPT ![agentId] = UnpairedAgent(agents[agentId])]
            /\ agentJobQueue' = DiscardQueue(agentJobQueue, agentId)
            /\ resp' = [op |-> "unpair", http |-> 200, ok |-> TRUE]
    /\ UNCHANGED <<pairingSessions, agentDevices, jobs, now, ticks, reports, claimCount,
                   dispatched, deviceUuids>>
    /\ UNCHANGED dashboard

-----------------------------------------------------------------------------

(* GET /portal/agents *)

\* Array.from(agents.values()): a Map iterates in insertion order.
AgentValues(map) == [k \in 1..Cardinality(DOMAIN map) |-> map[AgentUuid(k)]]

TenantMatches(a, tenantId) == Falsy(tenantId) \/ a.tenantId = tenantId

AgentView(a) ==
    [agentId |-> a.agentId, displayName |-> a.displayName, siteId |-> a.siteId,
     tenantId |-> a.tenantId, paired |-> a.paired, online |-> a.online,
     lastSeenAt |-> a.lastSeenAt, agentVersion |-> a.agentVersion]

AgentList(map, tenantId) ==
    LET kept == SelectSeq(AgentValues(map), LAMBDA a : TenantMatches(a, tenantId))
    IN [i \in 1..Len(kept) |-> AgentView(kept[i])]

ListAgents(tenantId) == AgentList(agents, tenantId)

PortalListAgents(tenantId) ==
    /\ resp' = [op |-> "listAgents", http |-> 200, ok |-> TRUE, list |-> ListAgents(tenantId)]
    /\ UNCHANGED <<store, now, ticks, reports, claimCount, dispatched, deviceUuids>>
    /\ UNCHANGED dashboard

-----------------------------------------------------------------------------
(* GET /portal/agents/:agentId/devices *)

PortalDevices_NoCheck(agentId) ==
    /\ resp' = [op |-> "devices", http |-> 200, ok |-> TRUE,
                list |-> IF agentId \in DOMAIN agentDevices THEN agentDevices[agentId]
                         ELSE << >>]
    /\ UNCHANGED <<store, now, ticks, reports, claimCount, dispatched, deviceUuids>>
    /\ UNCHANGED dashboard
PortalDevices(agentId) ==
    /\ IF ~KnownAgent(agentId)
       THEN resp' = Fail("devices", 404, "UNKNOWN_AGENT")
       ELSE resp' = [op |-> "devices", http |-> 200, ok |-> TRUE,
                     list |-> IF agentId \in DOMAIN agentDevices THEN agentDevices[agentId]
                              ELSE << >>]
    /\ UNCHANGED <<store, now, ticks, reports, claimCount, dispatched, deviceUuids>>
    /\ UNCHANGED dashboard

-----------------------------------------------------------------------------
(* POST /portal/agents/:agentId/jobs/firmware-update *)

NewJob_Unowned(jobId, agentId, deviceId, artifactId, t) ==
    [jobId |-> jobId,
     type |-> "firmware-update",
     agentId |-> Null,
     deviceId |-> deviceId,
     payload |-> [artifactId |-> artifactId],
     status |-> "queued",
     progress |-> 0,
     message |-> "queued",
     createdAt |-> nowIso(t),
     updatedAt |-> nowIso(t),
     startedAt |-> NoTime,
     finishedAt |-> NoTime]
NewJob(jobId, agentId, deviceId, artifactId, t) ==
    [jobId |-> jobId,
     type |-> "firmware-update",
     agentId |-> agentId,
     deviceId |-> deviceId,
     payload |-> [artifactId |-> artifactId],
     status |-> "queued",
     progress |-> 0,
     message |-> "queued",
     createdAt |-> nowIso(t),
     updatedAt |-> nowIso(t),
     startedAt |-> NoTime,
     finishedAt |-> NoTime]

CreateFirmwareJob(agentId, deviceId, artifactId) ==
    /\ IF agentId \notin DOMAIN agents
       THEN /\ resp' = Fail("createJob", 404, "UNKNOWN_AGENT")
            /\ UNCHANGED <<jobs, agentJobQueue>>
       ELSE IF Falsy(deviceId)
       THEN /\ resp' = Fail("createJob", 400, "MISSING_DEVICE_ID")
            /\ UNCHANGED <<jobs, agentJobQueue>>
       ELSE IF Falsy(artifactId)
       THEN /\ resp' = Fail("createJob", 400, "MISSING_ARTIFACT_ID")
            /\ UNCHANGED <<jobs, agentJobQueue>>
       ELSE LET jobId == JobUuid(JobCount + 1)
                queues == ensureQueue(agentId)
            IN /\ jobs' = Put(jobs, jobId, NewJob(jobId, agentId, deviceId, artifactId, now))
               /\ agentJobQueue' = [queues EXCEPT ![agentId] = Append(@, jobId)]
               /\ resp' = [op |-> "createJob", http |-> 200, ok |-> TRUE, jobId |-> jobId]
    /\ UNCHANGED <<agents, pairingSessions, agentDevices, now, ticks, reports, claimCount,
                   dispatched, deviceUuids>>
    /\ UNCHANGED dashboard

-----------------------------------------------------------------------------
(* GET /portal/jobs/:jobId *)

PortalGetJob(jobId) ==
    /\ IF jobId \notin DOMAIN jobs
       THEN resp' = Fail("getJob", 404, "UNKNOWN_JOB")
       ELSE resp' = [op |-> "getJob", http |-> 200, ok |-> TRUE, job |-> jobs[jobId]]
    /\ UNCHANGED <<store, now, ticks, reports, claimCount, dispatched, deviceUuids>>
    /\ UNCHANGED dashboard

-----------------------------------------------------------------------------
(* The clock *)

Tick(d) ==
    /\ now' = now + d
    /\ ticks' = ticks + 1
    /\ UNCHANGED <<store, resp, reports, claimCount, dispatched, deviceUuids>>
    /\ UNCHANGED dashboard

-----------------------------------------------------------------------------
(* The dashboard (src/public/app.js): pollJob and its tick callback.  A call *)
(* of tick() runs up to its await of GET /portal/jobs/:jobId; the rest of    *)
(* the callback, and for the first tick the rest of pollJob, runs when the   *)
(* answer arrives.                                                           *)

\* clearInterval(id): a null, stale or unknown identifier clears nothing.
clearInterval(timers, id) == [t \in DOMAIN timers \ {id} |-> timers[t]]

TickCall(id, jobId, first) == [id |-> id, jobId |-> jobId, first |-> first]

\* pollJob(jobId) up to the await in its first tick (lines 183, 202, 187).
PollJob(jobId) ==
    /\ intervals' = IF jobPollTimer # NoTimer THEN clearInterval(intervals, jobPollTimer)
                    ELSE intervals
    /\ inFlight' = inFlight \cup {TickCall(requests + 1, jobId, TRUE)}
    /\ requests' = requests + 1
    /\ polled' = polled \cup {jobId}
    /\ UNCHANGED <<jobPollTimer, timerIds, observedEnd>>
    /\ UNCHANGED <<store, now, resp, ticks, reports, claimCount, dispatched, deviceUuids>>

\* A live interval timer fires: tick() up to its await (line 187).
TimerFires(timer) ==
    /\ timer \in DOMAIN intervals
    /\ inFlight' = inFlight \cup {TickCall(requests + 1, intervals[timer], FALSE)}
    /\ requests' = requests + 1
    /\ UNCHANGED <<jobPollTimer, intervals, timerIds, observedEnd, polled>>
    /\ UNCHANGED <<store, now, resp, ticks, reports, claimCount, dispatched, deviceUuids>>

\* The job is finished, or api() threw: the request failed or the job is unknown.
PollEnds(jobId, requestFailed) ==
    \/ requestFailed
    \/ jobId \notin DOMAIN jobs
    \/ jobs[jobId].status \in {"succeeded", "failed"}

\* The answer of a tick's request arrives: lines 188-199, and for the first
\* tick of a pollJob call line 203.
TickReturns(call, requestFailed) ==
    LET ends == PollEnds(call.jobId, requestFailed)
        cleared == IF ends THEN clearInterval(intervals, jobPollTimer) ELSE intervals
        timer == IF ends THEN NoTimer ELSE jobPollTimer
    IN /\ call \in inFlight
       /\ inFlight' = inFlight \ {call}
       /\ observedEnd' = IF ends THEN observedEnd \cup {call.jobId} ELSE observedEnd
       /\ IF call.first
          THEN /\ intervals' = Put(cleared, timerIds + 1, call.jobId)
               /\ jobPollTimer' = timerIds + 1
               /\ timerIds' = timerIds + 1
          ELSE /\ intervals' = cleared
               /\ jobPollTimer' = timer
               /\ UNCHANGED timerIds
       /\ UNCHANGED <<requests, polled>>
       /\ UNCHANGED <<store, now, resp, ticks, reports, claimCount, dispatched, deviceUuids>>

-----------------------------------------------------------------------------

(* Requests.  Every specification below runs the same handlers; it differs  *)
(* in the handlers it exercises and in the request values it draws.         *)

RegisteredIds == DOMAIN agents
AgentIdInputs == RegisteredIds \cup {Undefined, "agent-x"}
JobIdInputs == DOMAIN jobs \cup {"job-x"}
ReportAgentInputs == RegisteredIds \cup {Undefined, "", "agent-x"}

\* Bodies of POST /portal/agents/pair: nothing supplied, everything supplied,
\* the empty strings public/app.js sends for empty form fields.
PairBodies ==
    {[tenantId |-> Undefined, userId |-> Undefined, displayName |-> Undefined, siteId |-> Undefined],
     [tenantId |-> "acme", userId |-> "achraf", displayName |-> "Line 1", siteId |-> "plant-a"],
     [tenantId |-> "", userId |-> Null, displayName |-> "", siteId |-> ""]}
PairCodeInputs == PairingCodes \cup {Undefined, "ZZZZ-0000"}
TenantFilters == {Undefined, "", "acme", "globex", "demo-tenant"}

NotNumber == [isNumber |-> FALSE, value |-> 0]
Number(p) == [isNumber |-> TRUE, value |-> p]
\* Bodies of POST /agent/jobs/:jobId/progress.  100 is not among the reported
\* values (-10, 42, 150): a stored 100 is a clamped 150.
ProgressBodies ==
    {[status |-> Undefined, progress |-> NotNumber, message |-> Undefined],
     [status |-> "running", progress |-> Number(42), message |-> "flashing"],
     [status |-> "succeeded", progress |-> Number(150), message |-> Undefined],
     [status |-> "failed", progress |-> Number(-10), message |-> "flashing"],
     [status |-> "queued", progress |-> NotNumber, message |-> ""]}

NotArray == [isArray |-> FALSE, items |-> << >>]
Array(items) == [isArray |-> TRUE, items |-> items]
DeviceInput(id) ==
    [deviceId |-> id, serialNumber |-> Undefined, model |-> Undefined, fwVersion |-> Undefined,
     status |-> Undefined]

-----------------------------------------------------------------------------
(* Pairing: registration, claims by code, the tenant-filtered list, the clock *)

PairingTickSteps == {PairingTtlMs, PairingTtlMs + 1}

NextPairing ==
    \/ /\ AgentCount < MaxAgents
       /\ \E c \in PairingCodes : PairingStart(Undefined, Undefined, c)
    \/ \E c \in PairCodeInputs, b \in PairBodies :
           PortalPair(c, b.tenantId, b.userId, b.displayName, b.siteId)
    \/ /\ ticks < MaxTicks
       /\ \E d \in PairingTickSteps : Tick(d)

SpecPairing == Init /\ [][NextPairing]_vars

-----------------------------------------------------------------------------
(* Liveness of agents: heartbeats, device reports, the agent list, job      *)
(* creation against the agent's state, the clock                            *)

LivenessTickSteps == {OnlineTtlMs - 1, OnlineTtlMs}
LivenessCodes == {"8K7Q-2M9D"}
LivenessDevices == {NotArray, Array(<<DeviceInput("D1"), DeviceInput(Undefined)>>)}

NextLiveness ==
    \/ /\ AgentCount < MaxAgents
       /\ \E c \in LivenessCodes : PairingStart(Undefined, "edge-01", c)
    \/ \E a \in AgentIdInputs : Heartbeat(a, Undefined, Undefined)
    \/ /\ deviceUuids < MaxDeviceUuids
       /\ \E a \in AgentIdInputs, d \in LivenessDevices : DevicesReport(a, d)
    \/ \E t \in {Undefined} : PortalListAgents(t)
    \/ /\ JobCount < MaxJobs
       /\ \E a \in RegisteredIds \cup {"agent-x"}, d \in {Undefined, "D1"},
             f \in {Undefined, "fw-2.0"} : CreateFirmwareJob(a, d, f)
    \/ /\ ticks < MaxTicks
       /\ \E d \in LivenessTickSteps : Tick(d)

SpecLiveness == Init /\ [][NextLiveness]_vars

-----------------------------------------------------------------------------
(* The job queue: job creation, polls of the queue, and the progress reports *)
(* of agents for the jobs they were handed                                  *)

QueueCodes == {"8K7Q-2M9D"}

NextQueue ==
    \/ /\ AgentCount < MaxAgents
       /\ \E c \in QueueCodes : PairingStart(Undefined, Undefined, c)
    \/ /\ JobCount < MaxQueueJobs
       /\ \E a \in RegisteredIds : CreateFirmwareJob(a, "D1", "fw-2.0")
    \/ \E a \in AgentIdInputs : JobsNext(a)
    \/ /\ reports < MaxQueueReports
       /\ \E i \in 1..Len(dispatched) :
             JobProgress(dispatched[i][2], dispatched[i][1], "running", NotNumber, Undefined)

SpecQueue == Init /\ [][NextQueue]_vars

-----------------------------------------------------------------------------
(* The job ledger: progress reports with every kind of body, the clock *)

ProgressTickSteps == {1}
ProgressCodes == {"8K7Q-2M9D"}

NextProgress ==
    \/ /\ AgentCount < MaxLedgerAgents
       /\ \E c \in ProgressCodes : PairingStart(Undefined, Undefined, c)
    \/ /\ JobCount < MaxJobs
       /\ \E a \in RegisteredIds : CreateFirmwareJob(a, "D1", "fw-2.0")
    \/ /\ reports < MaxReports
       /\ \E j \in JobIdInputs, a \in ReportAgentInputs, b \in ProgressBodies :
             JobProgress(j, a, b.status, b.progress, b.message)
    \/ /\ ticks < MaxTicks
       /\ \E d \in ProgressTickSteps : Tick(d)

SpecProgress == Init /\ [][NextProgress]_vars

-----------------------------------------------------------------------------
(* Requests keyed by an agent identifier, registered or not: heartbeats,     *)
(* device reports, polls, device listings, job creation                      *)

KeyedCodes == {"8K7Q-2M9D"}
KeyedDevices == {NotArray, Array(<<DeviceInput("D1")>>)}
\* Identifiers no agent was registered under: one never allocated, and the
\* one the next registration will allocate.
UnregisteredIds == {"agent-x", AgentUuid(AgentCount + 1)}
KeyInputs == RegisteredIds \cup UnregisteredIds

NextKeyed ==
    \/ /\ AgentCount < MaxLedgerAgents
       /\ \E c \in KeyedCodes : PairingStart(Undefined, Undefined, c)
    \/ \E a \in KeyInputs \cup {Undefined} : Heartbeat(a, Undefined, Undefined)
    \/ \E a \in KeyInputs \cup {Undefined}, d \in KeyedDevices : DevicesReport(a, d)
    \/ \E a \in KeyInputs \cup {Undefined} : JobsNext(a)
    \/ \E a \in KeyInputs : PortalDevices(a)
    \/ /\ JobCount < MaxJobs
       /\ \E a \in KeyInputs, d \in {Undefined, "D1"}, f \in {Undefined, "fw-2.0"} :
             CreateFirmwareJob(a, d, f)

SpecKeyed == Init /\ [][NextKeyed]_vars

-----------------------------------------------------------------------------
(* The device inventory: reports of several agents and the device listing    *)

InventoryCodes == {"8K7Q-2M9D"}
InventoryDevices ==
    {NotArray, Array(<< >>), Array(<<DeviceInput("D1"), DeviceInput("D2")>>),
     Array(<<DeviceInput("D3")>>)}

NextInventory ==
    \/ /\ AgentCount < MaxAgents
       /\ \E c \in InventoryCodes : PairingStart(Undefined, Undefined, c)
    \/ \E a \in KeyInputs \cup {Undefined}, d \in InventoryDevices : DevicesReport(a, d)
    \/ \E a \in KeyInputs : PortalDevices(a)

SpecInventory == Init /\ [][NextInventory]_vars

-----------------------------------------------------------------------------
(* Unpairing: a paired agent with queued jobs is released, polls and job     *)
(* reads follow                                                              *)

UnpairCodes == {"8K7Q-2M9D"}

NextUnpair ==
    \/ /\ AgentCount < MaxLedgerAgents
       /\ \E c \in UnpairCodes : PairingStart(Undefined, Undefined, c)
    \/ \E c \in UnpairCodes : PortalPair(c, "acme", "achraf", "Line 1", "plant-a")
    \/ /\ JobCount < MaxUnpairJobs
       /\ \E a \in RegisteredIds : CreateFirmwareJob(a, "D1", "fw-2.0")
    \/ \E a \in RegisteredIds \cup {"agent-x"} : Unpair(a)
    \/ \E a \in RegisteredIds : JobsNext(a)
    \/ \E j \in JobIdInputs : PortalGetJob(j)

SpecUnpair == Init /\ [][NextUnpair]_vars

-----------------------------------------------------------------------------

(* Job creation: every kind of request body, for agents with and without a   *)
(* reported device list                                                      *)

EnqueueCodes == {"8K7Q-2M9D"}
EnqueueDevices == {Array(<<DeviceInput("D1")>>)}
EnqueueDeviceIds == {Undefined, "", "D1", "D9"}
EnqueueArtifacts == {Undefined, "fw-2.0"}

NextEnqueue ==
    \/ /\ AgentCount < MaxAgents
       /\ \E c \in EnqueueCodes : PairingStart(Undefined, Undefined, c)
    \/ \E a \in RegisteredIds, d \in EnqueueDevices : DevicesReport(a, d)
    \/ /\ JobCount < MaxEnqueueJobs
       /\ \E a \in KeyInputs, d \in EnqueueDeviceIds, f \in EnqueueArtifacts :
             CreateFirmwareJob(a, d, f)

SpecEnqueue == Init /\ [][NextEnqueue]_vars

-----------------------------------------------------------------------------

(* A job run from end to end: job creation, poll, the agent's progress       *)
(* reports for the jobs it was handed, the job read, the clock               *)

RunTickSteps == {1}
RunCodes == {"8K7Q-2M9D"}
RunBodies ==
    {[status |-> "running", progress |-> NotNumber, message |-> Undefined],
     [status |-> "succeeded", progress |-> Number(100), message |-> "done"],
     [status |-> "paused", progress |-> NotNumber, message |-> Undefined]}

NextJobRun ==
    \/ /\ AgentCount < MaxLedgerAgents
       /\ \E c \in RunCodes : PairingStart(Undefined, Undefined, c)
    \/ /\ JobCount < MaxJobs
       /\ \E a \in RegisteredIds : CreateFirmwareJob(a, "D1", "fw-2.0")
    \/ \E a \in RegisteredIds : JobsNext(a)
    \/ /\ reports < MaxReports
       /\ \E i \in 1..Len(dispatched), b \in RunBodies :
             JobProgress(dispatched[i][2], dispatched[i][1], b.status, b.progress, b.message)
    \/ \E j \in JobIdInputs : PortalGetJob(j)
    \/ /\ ticks < MaxTicks
       /\ \E d \in RunTickSteps : Tick(d)

SpecJobRun == Init /\ [][NextJobRun]_vars

-----------------------------------------------------------------------------
(* Every handler side by side around the jobs of the ledger: agents register *)
(* and jobs are created for them; with jobs in the ledger the agent is       *)
(* claimed, polls and reports a job running; an agent that runs a job sends  *)
(* heartbeats and device reports while the clock advances                    *)

FrameTickSteps == {1}
FrameCodes == {"8K7Q-2M9D"}
FrameDevices == {Array(<<DeviceInput("D1")>>)}
FrameBodies == {[status |-> "running", progress |-> Number(42), message |-> "flashing"]}

\* The agents that were handed a job and reported it running.
Holders == {dispatched[i][1] : i \in {k \in 1..Len(dispatched) :
                                          jobs[dispatched[k][2]].status = "running"}}

NextFrame ==
    \/ /\ AgentCount < MaxLedgerAgents
       /\ JobCount = 0
       /\ \E c \in FrameCodes : PairingStart(Undefined, Undefined, c)
    \/ /\ JobCount > 0
       /\ \E c \in FrameCodes : PortalPair(c, "", Undefined, Undefined, Undefined)
    \/ \E a \in Holders : Heartbeat(a, Undefined, Undefined)
    \/ \E a \in Holders, d \in FrameDevices : DevicesReport(a, d)
    \/ /\ JobCount < MaxFrameJobs
       /\ \E a \in RegisteredIds : CreateFirmwareJob(a, "D1", "fw-2.0")
    \/ \E a \in RegisteredIds : JobsNext(a)
    \/ /\ reports < MaxFrameReports
       /\ \E i \in 1..Len(dispatched), b \in FrameBodies :
             JobProgress(dispatched[i][2], dispatched[i][1], b.status, b.progress, b.message)
    \/ /\ ticks < MaxTicks
       /\ \E j \in DOMAIN jobs : jobs[j].status = "running"
       /\ \E d \in FrameTickSteps : Tick(d)

SpecFrame == Init /\ [][NextFrame]_vars

-----------------------------------------------------------------------------
(* Dispatch under polling: jobs are created for registered agents, and every *)
(* registered agent keeps polling its queue                                  *)

DispatchCodes == {"8K7Q-2M9D"}
DispatchAgents == {AgentUuid(k) : k \in 1..MaxAgents}
DispatchJobs == {JobUuid(k) : k \in 1..MaxDispatchJobs}

Poll(a) == a \in RegisteredIds /\ JobsNext(a)

NextDispatch ==
    \/ /\ AgentCount < MaxAgents
       /\ \E c \in DispatchCodes : PairingStart(Undefined, Undefined, c)
    \/ /\ JobCount < MaxDispatchJobs
       /\ \E a \in RegisteredIds : CreateFirmwareJob(a, "D1", "fw-2.0")
    \/ \E a \in DispatchAgents : Poll(a)

\* An agent's poll loop never stops: a poll that would change the state is
\* eventually sent.
SpecDispatch ==
    Init /\ [][NextDispatch]_vars /\ \A a \in DispatchAgents : WF_vars(Poll(a))

-----------------------------------------------------------------------------
(* The dashboard polls the jobs it started, while the agent reports and      *)
(* requests fail                                                             *)

DashboardCodes == {"8K7Q-2M9D"}
DashboardBodies ==
    {[status |-> "running", progress |-> NotNumber, message |-> Undefined],
     [status |-> "succeeded", progress |-> Number(100), message |-> "done"]}

NextDashboard ==
    \/ /\ AgentCount < MaxLedgerAgents
       /\ \E c \in DashboardCodes : PairingStart(Undefined, Undefined, c)
    \/ /\ JobCount < MaxDashboardJobs
       /\ \E a \in RegisteredIds : CreateFirmwareJob(a, "D1", "fw-2.0")
    \/ /\ reports < MaxReports
       /\ \E j \in DOMAIN jobs, b \in DashboardBodies :
             JobProgress(j, jobs[j].agentId, b.status, b.progress, b.message)
    \/ /\ requests < MaxPollRequests
       /\ \E j \in DOMAIN jobs \ polled : PollJob(j)
    \/ /\ requests < MaxPollRequests
       /\ \E t \in DOMAIN intervals : TimerFires(t)
    \/ \E call \in inFlight, requestFailed \in BOOLEAN : TickReturns(call, requestFailed)

SpecDashboard == Init /\ [][NextDashboard]_vars

-----------------------------------------------------------------------------
(* Claims about pairing, checked under SpecPairing *)

Claim(c, b) == PortalPair(c, b.tenantId, b.userId, b.displayName, b.siteId)
InList(agentId, list) == \E i \in 1..Len(list) : list[i].agentId = agentId
ListedPaired(agentId, list) ==
    \E i \in 1..Len(list) : list[i].agentId = agentId /\ list[i].paired

\* C1: a pairing code is single-use: over every sequence of issue and claim
\* operations at most one claim of a given code succeeds.
C1_AtMostOneClaimPerCode == \A c \in PairingCodes : claimCount[c] <= 1

\* C1, per session: a claim of a code whose stored session is marked used
\* answers CODE_ALREADY_USED whatever identifiers it supplies and changes no
\* agent and no session; a successful claim takes a session from unused to
\* used; only issuing the same code again stores an unused session under it.
C1_SessionIsSingleUse ==
    [][/\ \A c \in DOMAIN pairingSessions, b \in PairBodies :
            (pairingSessions[c].usedAt # NoTime /\ Claim(c, b)) =>
                /\ ~resp'.ok
                /\ resp'.http = 409 /\ resp'.error = "CODE_ALREADY_USED"
                /\ agents' = agents
                /\ pairingSessions' = pairingSessions
       /\ \A c \in PairingCodes :
            claimCount'[c] # claimCount[c] =>
                /\ claimCount'[c] = claimCount[c] + 1
                /\ c \in DOMAIN pairingSessions
                /\ pairingSessions[c].usedAt = NoTime
                /\ pairingSessions'[c].usedAt # NoTime
       /\ \A c \in DOMAIN pairingSessions :
            (pairingSessions[c].usedAt # NoTime /\ pairingSessions'[c].usedAt = NoTime) =>
                resp'.op = "pairingStart" /\ resp'.pairingCode = c]_vars

C1_Witness ==
    /\ resp.op = "pair" /\ resp.http = 409
    /\ \E c \in DOMAIN pairingSessions :
          pairingSessions[c].usedAt # NoTime /\ claimCount[c] = 2

\* C2: a session's expiresAt is its issue time plus 10 minutes; a claim of an
\* issued, unused code at now > expiresAt answers CODE_EXPIRED and leaves every
\* agent as it was, the bound agent unpaired; at now <= expiresAt it succeeds.
C2_ExpiryDecidesClaim ==
    [][/\ \A c \in PairingCodes :
            PairingStart(Undefined, Undefined, c) =>
                pairingSessions'[c].expiresAt = now + 10 * 60 * 1000
       /\ \A c \in DOMAIN pairingSessions, b \in PairBodies :
            (pairingSessions[c].usedAt = NoTime /\ Claim(c, b)) =>
                LET session == pairingSessions[c] IN
                IF now > session.expiresAt
                THEN /\ resp'.http = 410 /\ resp'.error = "CODE_EXPIRED"
                     /\ agents' = agents
                     /\ pairingSessions' = pairingSessions
                     /\ ~agents'[session.agentId].paired
                ELSE /\ resp'.http = 200 /\ resp'.ok
                     /\ resp'.agentId = session.agentId
                     /\ agents'[session.agentId].paired]_vars

C2_Witness ==
    /\ resp.op = "pair" /\ resp.http = 410
    /\ \E c \in DOMAIN pairingSessions :
          /\ pairingSessions[c].usedAt = NoTime
          /\ now = pairingSessions[c].expiresAt + 1
          /\ ~agents[pairingSessions[c].agentId].paired

\* C3: a successful claim with tenant T marks the session's usedAt and in the
\* same step sets the bound agent's paired=true and tenantId=T (the fallback
\* tenant when T is omitted); from then on the list filtered by the agent's
\* tenant contains it with paired=true and the list filtered by any other
\* tenant does not contain it.
C3_ClaimBindsTenant ==
    [][/\ \A c \in DOMAIN pairingSessions, b \in PairBodies :
            (Claim(c, b) /\ resp'.ok) =>
                LET agentId == pairingSessions[c].agentId
                    T == IF Nullish(b.tenantId) THEN "demo-tenant" ELSE b.tenantId
                IN /\ pairingSessions[c].usedAt = NoTime
                   /\ pairingSessions'[c].usedAt = nowIso(now)
                   /\ ~agents[agentId].paired
                   /\ agents'[agentId].paired
                   /\ agents'[agentId].tenantId = T
       /\ \A agentId \in DOMAIN agents' :
            (agents' # agents /\ agents'[agentId].paired) =>
                /\ ListedPaired(agentId, AgentList(agents', agents'[agentId].tenantId))
                /\ \A F \in TenantFilters :
                      (~Falsy(F) /\ F # agents'[agentId].tenantId) =>
                          ~InList(agentId, AgentList(agents', F))]_vars

C3_Witness ==
    /\ resp.op = "pair" /\ resp.ok
    /\ AgentCount = 2
    /\ agents[resp.agentId].paired /\ agents[resp.agentId].tenantId = "acme"
    /\ ListedPaired(resp.agentId, ListAgents("acme"))
    /\ Len(ListAgents("acme")) = 1
    /\ ~InList(resp.agentId, ListAgents("demo-tenant"))

\* C13: issuing a pairing code yields a code different from the code of every
\* live (unused, unexpired) session, and leaves every live session stored
\* under its code, bound to the agent it was issued for.
C13_IssueKeepsLiveSessions ==
    [][resp'.op = "pairingStart" =>
          \A c \in DOMAIN pairingSessions :
              (pairingSessions[c].usedAt = NoTime /\ now <= pairingSessions[c].expiresAt) =>
                  /\ resp'.pairingCode # c
                  /\ pairingSessions'[c] = pairingSessions[c]]_vars

-----------------------------------------------------------------------------
\* C21: a rejected pairing claim (INVALID_CODE, CODE_ALREADY_USED or
\* CODE_EXPIRED) changes nothing: no agent's paired, tenantId, siteId,
\* displayName, pairedBy or pairedAt changes, no session's usedAt, agentId or
\* expiresAt changes and no session is removed; an expired session stays
\* stored and a claim of it is rejected again.
C21_RejectedClaimChangesNothing ==
    [][resp'.op = "pair" =>
          /\ ~resp'.ok =>
                /\ resp'.error \in {"MISSING_PAIRING_CODE", "INVALID_CODE",
                                    "CODE_ALREADY_USED", "CODE_EXPIRED"}
                /\ DOMAIN agents' = DOMAIN agents
                /\ \A a \in DOMAIN agents :
                      /\ agents'[a].paired = agents[a].paired
                      /\ agents'[a].tenantId = agents[a].tenantId
                      /\ agents'[a].siteId = agents[a].siteId
                      /\ agents'[a].displayName = agents[a].displayName
                      /\ agents'[a].pairedBy = agents[a].pairedBy
                      /\ agents'[a].pairedAt = agents[a].pairedAt
                /\ DOMAIN pairingSessions' = DOMAIN pairingSessions
                /\ \A c \in DOMAIN pairingSessions :
                      /\ pairingSessions'[c].usedAt = pairingSessions[c].usedAt
                      /\ pairingSessions'[c].agentId = pairingSessions[c].agentId
                      /\ pairingSessions'[c].expiresAt = pairingSessions[c].expiresAt
          /\ \A c \in DOMAIN pairingSessions :
                (pairingSessions[c].usedAt = NoTime /\ now > pairingSessions[c].expiresAt) =>
                    \/ /\ ~resp'.ok
                       /\ resp'.error = "CODE_EXPIRED"
                       /\ c \in DOMAIN pairingSessions'
                       /\ pairingSessions'[c] = pairingSessions[c]
                    \/ \A b \in PairBodies : ~Claim(c, b)]_vars

C21_Witness ==
    /\ resp.op = "pair" /\ ~resp.ok /\ resp.error = "CODE_EXPIRED"
    /\ \E c \in DOMAIN pairingSessions :
          /\ pairingSessions[c].usedAt = NoTime
          /\ now > pairingSessions[c].expiresAt
          /\ ~agents[pairingSessions[c].agentId].paired
    /\ \E a \in DOMAIN agents : agents[a].paired /\ agents[a].tenantId = "acme"

\* C22: claim rejections are decided in a fixed order: a code that is not
\* stored yields INVALID_CODE; otherwise a code whose usedAt is set yields
\* CODE_ALREADY_USED even when it is also past expiresAt; CODE_EXPIRED is
\* answered only for a stored, unused code with now > expiresAt.
C22_RejectionOrder ==
    [][resp'.op = "pair" =>
          \A c \in PairCodeInputs \ {Undefined}, b \in PairBodies :
              \/ IF c \notin DOMAIN pairingSessions
                 THEN ~resp'.ok /\ resp'.http = 404 /\ resp'.error = "INVALID_CODE"
                 ELSE IF pairingSessions[c].usedAt # NoTime
                 THEN ~resp'.ok /\ resp'.http = 409 /\ resp'.error = "CODE_ALREADY_USED"
                 ELSE IF now > pairingSessions[c].expiresAt
                 THEN ~resp'.ok /\ resp'.http = 410 /\ resp'.error = "CODE_EXPIRED"
                 ELSE resp'.ok
              \/ ~Claim(c, b)]_vars

C22_Witness ==
    /\ resp.op = "pair" /\ ~resp.ok /\ resp.error = "CODE_ALREADY_USED"
    /\ \E c \in DOMAIN pairingSessions :
          /\ pairingSessions[c].usedAt # NoTime
          /\ now > pairingSessions[c].expiresAt
          /\ claimCount[c] = 1
    /\ \A c \in DOMAIN pairingSessions : pairingSessions[c].usedAt # NoTime

-----------------------------------------------------------------------------

(* Claims about the online state, checked under SpecLiveness *)

\* C4: for every agent and every time, the online flag the agent list shows
\* is true iff lastSeenAt is non-null and 0 <= now - lastSeenAt < 15000 ms.
C4_OnlineFlagIsDerived ==
    LET list == ListAgents(Undefined)
    IN \A i \in 1..Len(list) : list[i].online <=> isOnline(list[i].lastSeenAt, now)

\* C5: job creation for a registered agent whose derived online state is
\* false at the moment of the call answers AGENT_OFFLINE, creates no job and
\* adds nothing to any queue.
C5_OfflineAgentGetsNoJob ==
    [][\A a \in DOMAIN agents, d \in {Undefined, "D1"}, f \in {Undefined, "fw-2.0"} :
          (CreateFirmwareJob(a, d, f) /\ ~isOnline(agents[a].lastSeenAt, now)) =>
              /\ ~resp'.ok /\ resp'.error = "AGENT_OFFLINE"
              /\ jobs' = jobs
              /\ agentJobQueue' = agentJobQueue]_vars

-----------------------------------------------------------------------------
(* Claims about the job queue, checked under SpecQueue *)

QueueOf(queues, agentId) == IF agentId \in DOMAIN queues THEN queues[agentId] ELSE << >>

\* The jobs of the ledger that belong to an agent, in the order of creation.
JobsOf(ledger, agentId) ==
    SelectSeq([k \in 1..Cardinality(DOMAIN ledger) |-> JobUuid(k)],
              LAMBDA id : ledger[id].agentId = agentId)

\* The jobs handed to an agent so far, in the order they were handed out.
HandedTo(log, agentId) ==
    LET mine == SelectSeq(log, LAMBDA e : e[1] = agentId)
    IN [i \in 1..Len(mine) |-> mine[i][2]]

C7_AtMostOnceDispatch ==
    /\ \A i, k \in 1..Len(dispatched) : dispatched[i][2] = dispatched[k][2] => i = k
    /\ \A i \in 1..Len(dispatched) :
          /\ dispatched[i][2] \in DOMAIN jobs
          /\ jobs[dispatched[i][2]].agentId = dispatched[i][1]
          /\ \A a \in DOMAIN agentJobQueue :
                \A q \in 1..Len(agentJobQueue[a]) : agentJobQueue[a][q] # dispatched[i][2]

C7_Witness ==
    /\ reports = 1
    /\ \E i, k \in 1..Len(dispatched) :
          /\ dispatched[i][1] = "agent-1" /\ dispatched[k][1] = "agent-2"
          /\ jobs[dispatched[i][2]].status = "running"
    /\ \E a \in DOMAIN agentJobQueue : Len(agentJobQueue[a]) > 0

-----------------------------------------------------------------------------
(* Claims about the job ledger, checked under SpecProgress *)

Report(j, a, b) == JobProgress(j, a, b.status, b.progress, b.message)

\* C8: every stored progress is in 0..100: a new job has progress 0 and an
\* accepted report with a numeric progress p stores max(0, min(100, p)).
C8_ProgressClamped ==
    [][/\ \A j \in DOMAIN jobs' : jobs'[j].progress \in 0..100
       /\ \A j \in DOMAIN jobs' \ DOMAIN jobs : jobs'[j].progress = 0
       /\ (resp'.op = "jobProgress" /\ resp'.ok) =>
            \A j \in DOMAIN jobs, b \in ProgressBodies, a \in ReportAgentInputs :
                \/ ~b.progress.isNumber
                \/ jobs'[j].progress = IF b.progress.value < 0 THEN 0
                                       ELSE IF b.progress.value > 100 THEN 100
                                       ELSE b.progress.value
                \/ ~Report(j, a, b)]_vars

C8_Witness ==
    /\ resp.op = "jobProgress" /\ resp.ok
    /\ \E j \in DOMAIN jobs : jobs[j].progress = 100 /\ jobs[j].status = "succeeded"

\* C9: startedAt is null until the first report after which the status is
\* running, is set by that report to the time of the report, and never changes
\* again; finishedAt likewise with the statuses succeeded and failed.
C9_TimestampLatch ==
    [][/\ \A j \in DOMAIN jobs' \ DOMAIN jobs :
            jobs'[j].startedAt = NoTime /\ jobs'[j].finishedAt = NoTime
       /\ \A j \in DOMAIN jobs :
            /\ jobs[j].startedAt # NoTime => jobs'[j].startedAt = jobs[j].startedAt
            /\ jobs[j].finishedAt # NoTime => jobs'[j].finishedAt = jobs[j].finishedAt
            /\ (jobs[j].startedAt = NoTime /\ jobs'[j].startedAt # NoTime) =>
                   /\ resp'.op = "jobProgress" /\ resp'.ok
                   /\ jobs'[j].status = "running"
                   /\ jobs'[j].startedAt = nowIso(now)
            /\ (jobs[j].finishedAt = NoTime /\ jobs'[j].finishedAt # NoTime) =>
                   /\ resp'.op = "jobProgress" /\ resp'.ok
                   /\ jobs'[j].status \in {"succeeded", "failed"}
                   /\ jobs'[j].finishedAt = nowIso(now)
            /\ jobs'[j].status = "running" => jobs'[j].startedAt # NoTime
            /\ jobs'[j].status \in {"succeeded", "failed"} => jobs'[j].finishedAt # NoTime]_vars

C9_Witness ==
    /\ resp.op = "jobProgress" /\ resp.ok
    /\ \E j \in DOMAIN jobs :
          /\ jobs[j].status = "running"
          /\ jobs[j].startedAt # NoTime
          /\ jobs[j].updatedAt = nowIso(now)
          /\ IsoMs(jobs[j].startedAt) < now

\* C10: a report for a jobId that is not in the ledger answers UNKNOWN_JOB, a
\* report that supplies an agentId other than the job's owning agent answers
\* AGENT_MISMATCH; in both cases no field of any job record changes.
C10_RejectedReportChangesNothing ==
    [][resp'.op = "jobProgress" =>
          \A j \in JobIdInputs, a \in ReportAgentInputs :
              /\ j \notin DOMAIN jobs =>
                    \/ /\ ~resp'.ok
                       /\ resp'.http = 404 /\ resp'.error = "UNKNOWN_JOB"
                       /\ jobs' = jobs
                    \/ \A b \in ProgressBodies : ~Report(j, a, b)
              /\ (j \in DOMAIN jobs /\ ~Falsy(a) /\ a # jobs[j].agentId) =>
                    \/ /\ ~resp'.ok
                       /\ resp'.http = 403 /\ resp'.error = "AGENT_MISMATCH"
                       /\ jobs' = jobs
                    \/ \A b \in ProgressBodies : ~Report(j, a, b)]_vars

C10_Witness ==
    /\ resp.op = "jobProgress" /\ resp.http = 403
    /\ \E j \in DOMAIN jobs : jobs[j].status = "running" /\ jobs[j].agentId = "agent-1"

\* C19: status transitions are not validated against the prior status: a
\* report for a known job, by its agent or without agentId, is accepted
\* whatever the job's status, and when it carries one of the four statuses
\* the job has that status afterwards.
C19_AnyTransitionAccepted ==
    [][resp'.op = "jobProgress" =>
          \A j \in DOMAIN jobs :
              \A a \in {Undefined, jobs[j].agentId}, b \in ProgressBodies :
                  \/ /\ resp'.ok
                     /\ b.status \in {"queued", "running", "succeeded", "failed"} =>
                            jobs'[j].status = b.status
                  \/ ~Report(j, a, b)]_vars

C19_Witness ==
    /\ resp.op = "jobProgress" /\ resp.ok
    /\ \E j \in DOMAIN jobs :
          /\ jobs[j].status = "queued"
          /\ jobs[j].finishedAt # NoTime
          /\ jobs[j].startedAt = NoTime

-----------------------------------------------------------------------------
(* Claims about requests keyed by an agent identifier, checked under SpecKeyed *)

UnknownAgentAnswer == ~resp'.ok /\ resp'.error = "UNKNOWN_AGENT" /\ store' = store

\* C11: for an agent identifier that was never registered, heartbeat, device
\* report, poll, device listing and job creation answer UNKNOWN_AGENT and
\* change none of the five maps: no agent record, device list, job or queue
\* entry is created for that identifier.
C11_UnregisteredIsUnknown ==
    [][\A x \in UnregisteredIds :
          /\ UnknownAgentAnswer \/ ~Heartbeat(x, Undefined, Undefined)
          /\ \A d \in KeyedDevices : UnknownAgentAnswer \/ ~DevicesReport(x, d)
          /\ UnknownAgentAnswer \/ ~JobsNext(x)
          /\ UnknownAgentAnswer \/ ~PortalDevices(x)
          /\ \A d \in {Undefined, "D1"}, f \in {Undefined, "fw-2.0"} :
                UnknownAgentAnswer \/ ~CreateFirmwareJob(x, d, f)]_vars

C11_Witness ==
    /\ resp.op = "jobsNext" /\ ~resp.ok /\ resp.error = "UNKNOWN_AGENT"
    /\ AgentCount = 1
    /\ "agent-1" \in DOMAIN agentJobQueue /\ "agent-1" \in DOMAIN agentDevices
    /\ \A x \in UnregisteredIds :
          /\ x \notin DOMAIN agents /\ x \notin DOMAIN agentDevices
          /\ x \notin DOMAIN agentJobQueue
          /\ \A j \in DOMAIN jobs : jobs[j].agentId # x

-----------------------------------------------------------------------------
(* Claims about unpairing, checked under SpecUnpair *)

\* A job that is in no queue and was never handed out.
Dropped(queues, log, j) ==
    /\ \A a \in DOMAIN queues : \A q \in 1..Len(queues[a]) : queues[a][q] # j
    /\ \A i \in 1..Len(log) : log[i][2] # j

\* C12: unpair of a registered agent clears paired, tenantId and siteId and
\* leaves that agent's queue empty; the jobs that were pending are in no queue
\* from then on and no later poll returns them; no ledger record is deleted or
\* modified by unpair, and a read by jobId returns the record as it stands.
C12_UnpairDropsQueueKeepsLedger ==
    [][/\ \A a \in DOMAIN agents :
            Unpair(a) =>
                /\ resp'.ok
                /\ ~agents'[a].paired
                /\ agents'[a].tenantId = Null
                /\ agents'[a].siteId = Null
                /\ QueueOf(agentJobQueue', a) = << >>
                /\ \A q \in 1..Len(QueueOf(agentJobQueue, a)) :
                      Dropped(agentJobQueue', dispatched', QueueOf(agentJobQueue, a)[q])
                /\ jobs' = jobs
       /\ \A j \in DOMAIN jobs :
            /\ Dropped(agentJobQueue, dispatched, j) =>
                   Dropped(agentJobQueue', dispatched', j)
            /\ PortalGetJob(j) => resp'.ok /\ resp'.job = jobs[j]]_vars

C12_Witness ==
    /\ resp.op = "getJob" /\ resp.ok
    /\ Dropped(agentJobQueue, dispatched, resp.job.jobId)
    /\ resp.job.status = "queued"
    /\ ~agents[resp.job.agentId].paired
    /\ agents[resp.job.agentId].tenantId = Null
    /\ Cardinality({j \in DOMAIN jobs : Dropped(agentJobQueue, dispatched, j)}) = 3
    /\ \E c \in DOMAIN pairingSessions :
          /\ pairingSessions[c].agentId = resp.job.agentId
          /\ claimCount[c] = 1

-----------------------------------------------------------------------------
(* Claims about the device inventory, checked under SpecInventory *)

\* C14: a valid device report for agent A makes A's device list exactly the
\* reported devices, in the reported order, and leaves every other agent's
\* list as it was; a report rejected for an unknown agent or for devices that
\* are not a list leaves all device lists as they were.
C14_ReportReplacesList ==
    [][resp'.op = "devicesReport" =>
          \A a \in KeyInputs \cup {Undefined}, d \in InventoryDevices :
              DevicesReport(a, d) =>
                  IF a \in DOMAIN agents /\ d.isArray
                  THEN /\ resp'.ok
                       /\ DOMAIN agentDevices' = DOMAIN agentDevices \cup {a}
                       /\ Len(agentDevices'[a]) = Len(d.items)
                       /\ \A i \in 1..Len(d.items) :
                             /\ agentDevices'[a][i].deviceId = d.items[i].deviceId
                             /\ agentDevices'[a][i].reportedAt = nowIso(now)
                       /\ \A b \in DOMAIN agentDevices \ {a} :
                             agentDevices'[b] = agentDevices[b]
                  ELSE /\ ~resp'.ok
                       /\ resp'.error \in {"UNKNOWN_AGENT", "MISSING_DEVICES"}
                       /\ agentDevices' = agentDevices]_vars

C14_Witness ==
    /\ resp.op = "devicesReport" /\ resp.ok /\ resp.count = 1
    /\ AgentCount = 2
    /\ DOMAIN agentDevices = {"agent-1", "agent-2"}
    /\ Len(agentDevices["agent-1"]) = 1
    /\ agentDevices["agent-1"][1].deviceId = "D3"
    /\ Len(agentDevices["agent-2"]) = 2
    /\ agentDevices["agent-2"][1].deviceId = "D1"
    /\ agentDevices["agent-2"][2].deviceId = "D2"

-----------------------------------------------------------------------------
(* Claims about job creation, checked under SpecEnqueue *)

\* C15: job creation is all-or-nothing: a successful one adds exactly one job
\* record under a fresh jobId, with status queued, progress 0 and null
\* startedAt and finishedAt, and appends that jobId at the tail of the target
\* agent's queue only; one rejected with UNKNOWN_AGENT, MISSING_DEVICE_ID or
\* MISSING_ARTIFACT_ID adds no job record and changes no queue.
C15_EnqueueAllOrNothing ==
    [][resp'.op = "createJob" =>
          \A a \in KeyInputs, d \in EnqueueDeviceIds, f \in EnqueueArtifacts :
              CreateFirmwareJob(a, d, f) =>
                  IF resp'.ok
                  THEN LET j == resp'.jobId IN
                       /\ j \notin DOMAIN jobs
                       /\ DOMAIN jobs' = DOMAIN jobs \cup {j}
                       /\ \A k \in DOMAIN jobs : jobs'[k] = jobs[k]
                       /\ jobs'[j].jobId = j
                       /\ jobs'[j].agentId = a /\ jobs'[j].deviceId = d
                       /\ jobs'[j].status = "queued" /\ jobs'[j].progress = 0
                       /\ jobs'[j].startedAt = NoTime /\ jobs'[j].finishedAt = NoTime
                       /\ DOMAIN agentJobQueue' = DOMAIN agentJobQueue \cup {a}
                       /\ agentJobQueue'[a] = Append(QueueOf(agentJobQueue, a), j)
                       /\ \A b \in DOMAIN agentJobQueue \ {a} :
                             agentJobQueue'[b] = agentJobQueue[b]
                  ELSE /\ resp'.error \in
                             {"UNKNOWN_AGENT", "MISSING_DEVICE_ID", "MISSING_ARTIFACT_ID"}
                       /\ jobs' = jobs
                       /\ agentJobQueue' = agentJobQueue]_vars

C15_Witness ==
    /\ resp.op = "createJob" /\ resp.ok /\ resp.jobId = "job-2"
    /\ AgentCount = 2
    /\ DOMAIN agentJobQueue = {"agent-2"}
    /\ agentJobQueue["agent-2"] = <<"job-1", "job-2">>
    /\ jobs["job-2"].status = "queued" /\ jobs["job-2"].agentId = "agent-2"

\* C18: a job is created only when its deviceId is in the target agent's most
\* recently reported device list.
C18_JobDeviceWasReported ==
    [][resp'.op = "createJob" =>
          \A a \in DOMAIN agents, d \in EnqueueDeviceIds, f \in EnqueueArtifacts :
              (CreateFirmwareJob(a, d, f) /\ resp'.ok) =>
                  /\ a \in DOMAIN agentDevices
                  /\ \E i \in 1..Len(agentDevices[a]) : agentDevices[a][i].deviceId = d]_vars

-----------------------------------------------------------------------------
(* Claims about contact times, checked under SpecQueue *)

\* C16: after each successful heartbeat, device report, poll or progress
\* report that carries a known agentId, that agent's lastSeenAt is the time
\* of the call.
C16_ContactRefreshesLastSeen ==
    [][\A a \in DOMAIN agents :
          /\ Heartbeat(a, Undefined, Undefined) => agents'[a].lastSeenAt = nowIso(now)
          /\ \A d \in KeyedDevices :
                (DevicesReport(a, d) /\ resp'.ok) => agents'[a].lastSeenAt = nowIso(now)
          /\ JobsNext(a) => agents'[a].lastSeenAt = nowIso(now)
          /\ \A j \in DOMAIN jobs :
                (JobProgress(j, a, "running", NotNumber, Undefined) /\ resp'.ok) =>
                    agents'[a].lastSeenAt = nowIso(now)]_vars

-----------------------------------------------------------------------------
(* Claims about a job run, checked under SpecJobRun *)

PulledByOwner(j) == \E i \in 1..Len(dispatched) : dispatched[i] = <<jobs[j].agentId, j>>

\* C17: a job that was created, pulled by its agent and reported running is
\* running with startedAt set; when it is then reported succeeded with
\* progress 100 its record has status succeeded, progress 100, non-null
\* startedAt and finishedAt with startedAt no later than finishedAt; the job
\* read returns the record.
C17_JobRunEndToEnd ==
    [][\A j \in DOMAIN jobs :
          /\ (/\ PulledByOwner(j)
              /\ jobs[j].status = "queued" /\ jobs[j].startedAt = NoTime
              /\ jobs[j].finishedAt = NoTime
              /\ JobProgress(j, jobs[j].agentId, "running", NotNumber, Undefined)) =>
                 /\ resp'.ok
                 /\ jobs'[j].status = "running"
                 /\ jobs'[j].startedAt = nowIso(now)
                 /\ jobs'[j].finishedAt = NoTime
          /\ (/\ PulledByOwner(j)
              /\ jobs[j].status = "running" /\ jobs[j].finishedAt = NoTime
              /\ JobProgress(j, jobs[j].agentId, "succeeded", Number(100), "done")) =>
                 /\ resp'.ok
                 /\ jobs'[j].status = "succeeded"
                 /\ jobs'[j].progress = 100
                 /\ jobs'[j].startedAt # NoTime
                 /\ jobs'[j].finishedAt = nowIso(now)
                 /\ IsoMs(jobs'[j].startedAt) <= IsoMs(jobs'[j].finishedAt)
          /\ PortalGetJob(j) => (resp'.ok /\ resp'.job = jobs[j])]_vars

C17_Witness ==
    /\ resp.op = "getJob" /\ resp.ok
    /\ resp.job.jobId \in DOMAIN jobs
    /\ PulledByOwner(resp.job.jobId)
    /\ reports = 2
    /\ resp.job.status = "succeeded" /\ resp.job.progress = 100
    /\ resp.job.startedAt # NoTime /\ resp.job.finishedAt # NoTime
    /\ IsoMs(resp.job.startedAt) < IsoMs(resp.job.finishedAt)

\* C20: in every reachable state every job's status is one of queued,
\* running, succeeded, failed, whatever status the progress reports supply.
C20_StatusInVocabulary ==
    \A j \in DOMAIN jobs : jobs[j].status \in {"queued", "running", "succeeded", "failed"}

-----------------------------------------------------------------------------
(* Claims about what each handler leaves alone, checked under SpecFrame *)

\* C23: only an accepted progress report changes an existing job record:
\* poll, creation of other jobs, heartbeat, device report, pairing claim and
\* the passage of time leave every existing job's status, progress, message,
\* startedAt and finishedAt as they were, so a job that was handed out stays
\* queued until its agent reports and a running job stays running while no
\* report arrives.
C23_OnlyReportsChangeJobs ==
    [][\A j \in DOMAIN jobs :
          \/ /\ j \in DOMAIN jobs'
             /\ jobs'[j].status = jobs[j].status
             /\ jobs'[j].progress = jobs[j].progress
             /\ jobs'[j].message = jobs[j].message
             /\ jobs'[j].startedAt = jobs[j].startedAt
             /\ jobs'[j].finishedAt = jobs[j].finishedAt
          \/ /\ resp'.op = "jobProgress" /\ resp'.ok
             /\ reports' = reports + 1
             /\ jobs'[j].updatedAt = nowIso(now)
             /\ \A k \in DOMAIN jobs \ {j} : jobs'[k] = jobs[k]]_vars

C23_Witness ==
    /\ resp.op = "jobsNext" /\ resp.ok /\ Len(resp.jobs) = 1
    /\ now = 1 /\ reports = 1
    /\ DOMAIN jobs = {"job-1", "job-2"}
    /\ jobs["job-1"].status = "running" /\ jobs["job-1"].startedAt = nowIso(0)
    /\ jobs["job-1"].progress = 42
    /\ jobs["job-2"].status = "queued" /\ jobs["job-2"].createdAt = nowIso(1)
    /\ PulledByOwner("job-2")
    /\ agents["agent-1"].paired
    /\ agents["agent-1"].online /\ agents["agent-1"].lastSeenAt = nowIso(1)
    /\ "agent-1" \in DOMAIN agentDevices

\* C24: in every reachable state an agent has paired=true iff its tenantId is
\* non-null: both are unset at agent creation, both are set together by a
\* successful pairing claim, and no other operation (heartbeat, device report,
\* poll, job creation, progress report) changes either.
C24_PairedIffTenant ==
    [][/\ \A a \in DOMAIN agents' : agents'[a].paired <=> agents'[a].tenantId # Null
       /\ \A a \in DOMAIN agents' \ DOMAIN agents :
             ~agents'[a].paired /\ agents'[a].tenantId = Null
       /\ \A a \in DOMAIN agents :
             \/ /\ agents'[a].paired = agents[a].paired
                /\ agents'[a].tenantId = agents[a].tenantId
             \/ /\ resp'.op = "pair" /\ resp'.ok /\ resp'.agentId = a
                /\ ~agents[a].paired /\ agents[a].tenantId = Null
                /\ agents'[a].paired /\ agents'[a].tenantId # Null]_vars

C24_Witness ==
    /\ resp.op = "heartbeat" /\ resp.ok
    /\ agents["agent-1"].paired /\ agents["agent-1"].tenantId = ""
    /\ agents["agent-1"].pairedAt = nowIso(0)
    /\ agents["agent-1"].lastSeenAt = nowIso(1)
    /\ "agent-1" \in DOMAIN agentDevices
    /\ reports = 1 /\ JobCount = 2

\* C27: a job's identity fields never change and no job is deleted: a job that
\* is in the ledger stays there and its jobId, type, agentId, deviceId and
\* payload keep their creation values under every later operation, so the
\* agent a report is compared with is the agent the job was queued for and
\* handed to.
C27_JobIdentityIsFixed ==
    [][/\ \A j \in DOMAIN jobs :
             /\ j \in DOMAIN jobs'
             /\ jobs'[j].jobId = j
             /\ jobs'[j].type = jobs[j].type
             /\ jobs'[j].agentId = jobs[j].agentId
             /\ jobs'[j].deviceId = jobs[j].deviceId
             /\ jobs'[j].payload = jobs[j].payload
       /\ \A j \in DOMAIN jobs' \ DOMAIN jobs :
             /\ resp'.op = "createJob" /\ resp'.jobId = j
             /\ jobs'[j].jobId = j /\ jobs'[j].type = "firmware-update"
             /\ jobs'[j].deviceId = "D1" /\ jobs'[j].payload = [artifactId |-> "fw-2.0"]
             /\ agentJobQueue'[jobs'[j].agentId][Len(agentJobQueue'[jobs'[j].agentId])] = j
       /\ \A i \in 1..Len(dispatched') :
             jobs'[dispatched'[i][2]].agentId = dispatched'[i][1]]_vars

C27_Witness ==
    /\ resp.op = "devicesReport" /\ resp.ok
    /\ now = 1
    /\ DOMAIN jobs = {"job-1", "job-2"}
    /\ jobs["job-1"].status = "running" /\ jobs["job-1"].updatedAt = nowIso(0)
    /\ jobs["job-1"].agentId = "agent-1" /\ jobs["job-1"].deviceId = "D1"
    /\ jobs["job-1"].payload = [artifactId |-> "fw-2.0"]
    /\ jobs["job-2"].createdAt = nowIso(1) /\ jobs["job-2"].agentId = "agent-1"
    /\ PulledByOwner("job-1") /\ ~PulledByOwner("job-2")
    /\ agents["agent-1"].paired

-----------------------------------------------------------------------------
(* Claims about the integrity of the queues, checked under SpecQueue *)

\* C25: queue integrity: in every reachable state every identifier in agent
\* A's queue is the jobId of a ledger record whose agentId is A, and no job
\* identifier occurs twice in one queue or in the queues of two agents.
C25_QueueIntegrity ==
    /\ \A a \in DOMAIN agentJobQueue :
          /\ a \in DOMAIN agents
          /\ \A q \in 1..Len(agentJobQueue[a]) :
                /\ agentJobQueue[a][q] \in DOMAIN jobs
                /\ jobs[agentJobQueue[a][q]].jobId = agentJobQueue[a][q]
                /\ jobs[agentJobQueue[a][q]].agentId = a
          /\ \A p, q \in 1..Len(agentJobQueue[a]) :
                agentJobQueue[a][p] = agentJobQueue[a][q] => p = q
    /\ \A a, b \in DOMAIN agentJobQueue :
          a # b => \A p \in 1..Len(agentJobQueue[a]), q \in 1..Len(agentJobQueue[b]) :
                      agentJobQueue[a][p] # agentJobQueue[b][q]

C25_Witness ==
    /\ resp.op = "createJob" /\ resp.ok
    /\ Len(dispatched) = 1
    /\ DOMAIN agentJobQueue = {"agent-1", "agent-2"}
    /\ Len(agentJobQueue["agent-1"]) = 2
    /\ Len(agentJobQueue["agent-2"]) = 1
    /\ JobCount = 4

-----------------------------------------------------------------------------
(* Claims about dispatch under polling, checked under SpecDispatch *)

InSomeQueue(j) ==
    \E a \in DOMAIN agentJobQueue : \E q \in 1..Len(agentJobQueue[a]) : agentJobQueue[a][q] = j
ReturnedToOwner(j) ==
    j \in DOMAIN jobs /\ \E i \in 1..Len(dispatched) : dispatched[i] = <<jobs[j].agentId, j>>

\* The number of polls that empty a queue of n identifiers: ceil(n / 3).
PollsToEmpty(n) == (n + 2) \div 3

\* C26: dispatch liveness: when an agent keeps polling and finitely many jobs
\* are created for it, every job queued for it is eventually returned by one
\* of its polls; each poll of a queue of n > 0 identifiers leaves a queue that
\* ceil(n/3) - 1 further polls empty, so with no further job creation a queue
\* of n identifiers is empty after ceil(n/3) polls.
C26_DispatchLiveness ==
    /\ [][resp'.op = "jobsNext" =>
             \A a \in DOMAIN agents :
                 LET n == Len(QueueOf(agentJobQueue, a)) IN
                 JobsNext(a) =>
                     /\ resp'.ok
                     /\ PollsToEmpty(Len(agentJobQueue'[a])) = Max(0, PollsToEmpty(n) - 1)
                     /\ n <= 3 => agentJobQueue'[a] = << >>]_vars
    /\ \A j \in DispatchJobs : InSomeQueue(j) ~> ReturnedToOwner(j)

C26_Witness ==
    /\ resp.op = "jobsNext" /\ resp.ok /\ Len(resp.jobs) = 1
    /\ resp.jobs[1].jobId = "job-4" /\ resp.jobs[1].agentId = "agent-1"
    /\ agentJobQueue["agent-1"] = << >>
    /\ HandedTo(dispatched, "agent-1") = <<"job-1", "job-2", "job-3", "job-4">>
    /\ Len(dispatched) = 4

-----------------------------------------------------------------------------
(* Claims about the dashboard's job polling, checked under SpecDashboard *)

\* C28: under any interleaving of pollJob calls and timer ticks at most one
\* job-poll interval timer is live at a time, and once a tick observed the
\* status succeeded or failed, or a poll request failed, no further poll
\* request for that job is sent.
C28_OnePollerStopsAtEnd ==
    [][/\ Cardinality(DOMAIN intervals') <= 1
       /\ \A call \in inFlight' \ inFlight : call.jobId \notin observedEnd]_vars

====
